---------------------------- MODULE Spec2Model ----------------------------
(***************************************************************************)
(* Relationship graph of the Hebrew family tree notifier.                  *)
(*                                                                         *)
(* gedcom_graph.build_graph reads the root elements of a GEDCOM file in    *)
(* two passes (INDI records, then FAM records) into a networkx Graph, and  *)
(* gedcom_graph.distance_and_path answers shortest-path queries on it with *)
(* nx.shortest_path_length and nx.shortest_path, both of which run         *)
(* networkx's bidirectional breadth-first search on an unweighted graph.   *)
(***************************************************************************)
EXTENDS Integers, Sequences, FiniteSets, TLC

\* Bounds of the model.
NumIds == 3          \* distinct GEDCOM pointers that can occur in the file
MaxFams == 2         \* FAM records in the file
MaxRefs == 4         \* HUSB, WIFE and CHIL lines in the file, all records together

Ids == 1..NumIds

\* `husb = wife = None`: a FAM record without that line.
NoId == 0
\* The distance None of `return None, []`.
NoDist == 0 - 1

\* The FAM records a file can hold: HUSB, WIFE (or none) and the CHIL list.
ChildLists == UNION {[1..n -> Ids] : n \in 0..MaxRefs}
FamRecords == [husb : Ids \cup {NoId}, wife : Ids \cup {NoId}, children : ChildLists]

\* The HUSB, WIFE and CHIL lines of one record, and of a list of records.
Refs(f) == (IF f.husb # NoId THEN 1 ELSE 0) + (IF f.wife # NoId THEN 1 ELSE 0)
           + Len(f.children)
RECURSIVE TotalRefs(_)
TotalRefs(fs) == IF fs = <<>> THEN 0 ELSE Refs(Head(fs)) + TotalRefs(Tail(fs))

VARIABLES
    pc,        \* "indi": first loop, "fam": second loop, "built": graph
               \* returned, "asked": distance_and_path has answered
    indi,      \* the pointers of the INDI records read (keys of the dict indi)
    fams,      \* the FAM records read so far, in file order
    G,         \* the networkx graph: [nodes, adj], adj in insertion order
    result,    \* the last answer of distance_and_path, with its query
    people,    \* the parser's INDI elements: pointer -> [sex, fams, famc]
    label,     \* the last answer of get_relationship, with its arguments
    chain,     \* the parts of the last readable path of build_issue_body
    root,      \* the pointers of the INDI elements of the file, in file order
    bfs        \* the standalone script: its graph and the traversal under way

vars == <<pc, indi, fams, G, result, people, label, chain, root, bfs>>

\* What the family-tree lines of an INDI element and the issue text hold;
\* build_graph reads none of it.
kin == <<people, label, chain>>

\* What only the record list and the standalone script hold.
other == <<root, bfs>>

----------------------------------------------------------------------------
(* networkx.Graph *)

\* nodes: the keys of G._node; adj[n]: the keys of G._adj[n], which a dict
\* keeps in insertion order.
EmptyGraph == [nodes |-> {}, adj |-> <<>>]

InSeq(x, s) == \E k \in 1..Len(s) : s[k] = x

\* Graph.add_node: a new node gets an empty adjacency, an old one keeps its own.
add_node(g, n) ==
    [nodes |-> g.nodes \cup {n},
     adj |-> [x \in g.nodes \cup {n} |-> IF x \in g.nodes THEN g.adj[x] ELSE <<>>]]

\* dict assignment adj[u][v] = data: a new key goes last, an old key stays.
PutKey(s, v) == IF InSeq(v, s) THEN s ELSE Append(s, v)

\* Graph.add_edge: adds missing end points as nodes, then both directions.
Link(g, u, v) == [g EXCEPT !.adj[u] = PutKey(@, v)]
add_edge(g, u, v) == Link(Link(add_node(add_node(g, u), v), u, v), v, u)

\* Graph.has_edge
has_edge(g, u, v) == u \in g.nodes /\ InSeq(v, g.adj[u])

----------------------------------------------------------------------------
(* build_graph *)

\* A first loop that keeps the name but adds no node.
NoNodeForIndividual(g, pid) == g

\* Line 42, `G.add_node(pid, name=name)`.
NodeForIndividual(g, pid) == add_node(g, pid)

\* Lines 61-64: the parent-child links of one parent, child by child.
RECURSIVE LinkChildren(_, _, _, _)
LinkChildren(g, parent, children, k) ==
    IF k > Len(children) THEN g
    ELSE LinkChildren(add_edge(g, parent, children[k]), parent, children, k + 1)

LinkParent(g, parent, children) ==
    IF parent # NoId THEN LinkChildren(g, parent, children, 1) ELSE g

\* Lines 57-59: the spouse link.
LinkSpouses(g, husb, wife) ==
    IF husb # NoId /\ wife # NoId THEN add_edge(g, husb, wife) ELSE g

\* Every child linked to every other child of the record.
RECURSIVE LinkSiblings(_, _, _)
LinkSiblings(g, children, k) ==
    IF k > Len(children) THEN g
    ELSE LinkSiblings(LinkChildren(g, children[k], children, k + 1), children, k + 1)

\* A builder that links the whole household, siblings included.
AddFamilyWithSiblings(g, f) ==
    LinkSiblings(
        LinkParent(LinkParent(LinkSpouses(g, f.husb, f.wife), f.husb, f.children),
                   f.wife, f.children),
        f.children, 1)

\* A builder whose parent-child loop sits inside `if husb and wife`.
AddFamilyOfCouplesOnly(g, f) ==
    IF f.husb # NoId /\ f.wife # NoId
    THEN LinkParent(LinkParent(LinkSpouses(g, f.husb, f.wife), f.husb, f.children),
                    f.wife, f.children)
    ELSE g

\* Lines 57-64 for one FAM record: spouse link, then `for parent in [husb, wife]`.
AddFamily(g, f) ==
    LinkParent(LinkParent(LinkSpouses(g, f.husb, f.wife), f.husb, f.children),
               f.wife, f.children)

----------------------------------------------------------------------------
(* networkx shortest paths, unweighted: bidirectional breadth-first search *)

\* A Python dict as a function on its keys.
None == NoId
Dict1(k, v) == [x \in {k} |-> v]
HasKey(d, k) == k \in DOMAIN d
SetKey(d, k, v) == [x \in DOMAIN d \cup {k} |-> IF x = k THEN v ELSE d[x]]

Found(w, pred, succ) == [found |-> TRUE, w |-> w, pred |-> pred, succ |-> succ, fringe |-> <<>>]
Level(pred, succ, fringe) == [found |-> FALSE, w |-> None, pred |-> pred, succ |-> succ, fringe |-> fringe]

\* `if w not in pred: forward_fringe.append(w); pred[w] = v`, on the dict
\* and on the fringe.
Discover(links, w, v) == IF HasKey(links, w) THEN links ELSE SetKey(links, w, v)
Enqueue(fringe, links, w) == IF HasKey(links, w) THEN fringe ELSE Append(fringe, w)

\* A forward level that never looks whether the two searches met.
RECURSIVE ForwardLevelBlind(_, _, _, _, _, _, _)
ForwardLevelBlind(adj, this_level, i, j, pred, succ, fringe) ==
    IF i > Len(this_level) THEN Level(pred, succ, fringe)
    ELSE IF j > Len(adj[this_level[i]])
         THEN ForwardLevelBlind(adj, this_level, i + 1, 1, pred, succ, fringe)
         ELSE ForwardLevelBlind(adj, this_level, i, j + 1,
                                Discover(pred, adj[this_level[i]][j], this_level[i]),
                                succ,
                                Enqueue(fringe, pred, adj[this_level[i]][j]))

\* One forward level: `for v in this_level: for w in Gsucc[v]`, from the
\* j-th neighbour of the i-th node on; returns as soon as w is in succ.
RECURSIVE ForwardLevel(_, _, _, _, _, _, _)
ForwardLevel(adj, this_level, i, j, pred, succ, fringe) ==
    IF i > Len(this_level) THEN Level(pred, succ, fringe)
    ELSE IF j > Len(adj[this_level[i]])
         THEN ForwardLevel(adj, this_level, i + 1, 1, pred, succ, fringe)
         ELSE IF HasKey(succ, adj[this_level[i]][j])
              THEN Found(adj[this_level[i]][j],
                         Discover(pred, adj[this_level[i]][j], this_level[i]), succ)
              ELSE ForwardLevel(adj, this_level, i, j + 1,
                                Discover(pred, adj[this_level[i]][j], this_level[i]),
                                succ,
                                Enqueue(fringe, pred, adj[this_level[i]][j]))

\* One reverse level: `for v in this_level: for w in Gpred[v]`, with
\* `if w not in succ: succ[w] = v; reverse_fringe.append(w)`.
RECURSIVE ReverseLevel(_, _, _, _, _, _, _)
ReverseLevel(adj, this_level, i, j, pred, succ, fringe) ==
    IF i > Len(this_level) THEN Level(pred, succ, fringe)
    ELSE IF j > Len(adj[this_level[i]])
         THEN ReverseLevel(adj, this_level, i + 1, 1, pred, succ, fringe)
         ELSE IF HasKey(pred, adj[this_level[i]][j])
              THEN Found(adj[this_level[i]][j], pred,
                         Discover(succ, adj[this_level[i]][j], this_level[i]))
              ELSE ReverseLevel(adj, this_level, i, j + 1,
                                pred,
                                Discover(succ, adj[this_level[i]][j], this_level[i]),
                                Enqueue(fringe, succ, adj[this_level[i]][j]))

\* `while forward_fringe and reverse_fringe`: expand the smaller fringe, and
\* go on with the new fringe r.fringe unless the level returned a meeting
\* node. Falling out of the loop is `raise nx.NetworkXNoPath`.
RECURSIVE SearchLoop(_, _, _, _, _)
RECURSIVE AfterForward(_, _, _)
RECURSIVE AfterReverse(_, _, _)
AfterForward(adj, r, reverse_fringe) ==
    IF r.found THEN r ELSE SearchLoop(adj, r.pred, r.succ, r.fringe, reverse_fringe)

AfterReverse(adj, r, forward_fringe) ==
    IF r.found THEN r ELSE SearchLoop(adj, r.pred, r.succ, forward_fringe, r.fringe)

SearchLoop(adj, pred, succ, forward_fringe, reverse_fringe) ==
    IF forward_fringe = <<>> \/ reverse_fringe = <<>>
    THEN Level(pred, succ, <<>>)
    ELSE IF Len(forward_fringe) <= Len(reverse_fringe)
         THEN AfterForward(adj, ForwardLevel(adj, forward_fringe, 1, 1, pred, succ, <<>>),
                           reverse_fringe)
         ELSE AfterReverse(adj, ReverseLevel(adj, reverse_fringe, 1, 1, pred, succ, <<>>),
                           forward_fringe)

\* The search without its `if target == source` shortcut.
bidirectional_pred_succ_always_search(g, source, target) ==
    SearchLoop(g.adj, Dict1(source, None), Dict1(target, None),
               <<source>>, <<target>>)

\* _bidirectional_pred_succ(G, source, target)
bidirectional_pred_succ(g, source, target) ==
    IF target = source
    THEN Found(source, Dict1(target, None), Dict1(source, None))
    ELSE SearchLoop(g.adj, Dict1(source, None), Dict1(target, None),
                    <<source>>, <<target>>)

\* `while w is not None: path.append(w); w = pred[w]`, for pred and for succ.
RECURSIVE Walk(_, _)
Walk(links, w) == IF w = None THEN <<>> ELSE <<w>> \o Walk(links, links[w])

Reverse(s) == [k \in 1..Len(s) |-> s[Len(s) + 1 - k]]

\* What a networkx call gives: a value, or the exception it raises.
Value(v) == [exc |-> "", value |-> v]
Raise(e) == [exc |-> e, value |-> <<>>]

\* The path through the meeting node r.w: back along pred to the source,
\* reversed, then along succ to the target; no meeting node is NetworkXNoPath.
BuildPath(r) ==
    IF ~r.found THEN Raise("NetworkXNoPath")
    ELSE Value(Reverse(Walk(r.pred, r.w)) \o Walk(r.succ, r.succ[r.w]))

\* nx.bidirectional_shortest_path(G, source, target)
bidirectional_shortest_path(g, source, target) ==
    IF source \notin g.nodes \/ target \notin g.nodes THEN Raise("NodeNotFound")
    ELSE BuildPath(bidirectional_pred_succ(g, source, target))

\* nx.shortest_path(G, source, target), weight None: the unweighted method.
shortest_path(g, source, target) ==
    bidirectional_shortest_path(g, source, target)

\* `paths = len(p) - 1`, and a length that counts the nodes instead.
EdgeCount(p) == IF p.exc # "" THEN p ELSE Value(Len(p.value) - 1)
NodeCount(p) == IF p.exc # "" THEN p ELSE Value(Len(p.value))

\* A length that counts the nodes of the path instead of its edges.
shortest_path_node_count(g, source, target) ==
    IF source \notin g.nodes THEN Raise("NodeNotFound")
    ELSE NodeCount(bidirectional_shortest_path(g, source, target))

\* nx.shortest_path_length(G, source, target), weight None: len(p) - 1.
shortest_path_length(g, source, target) ==
    IF source \notin g.nodes THEN Raise("NodeNotFound")
    ELSE EdgeCount(bidirectional_shortest_path(g, source, target))

----------------------------------------------------------------------------
(* distance_and_path *)

\* Handlers that forget one of the two exceptions.
CaughtNoPathOnly == {"NetworkXNoPath"}
CaughtNodeNotFoundOnly == {"NodeNotFound"}

\* `except (nx.NetworkXNoPath, nx.NodeNotFound)`
Caught == {"NetworkXNoPath", "NodeNotFound"}

\* The except clause: a caught exception gives (None, []), any other one
\* leaves the function.
Except(exc) ==
    [d |-> NoDist, p |-> <<>>, exc |-> IF exc \in Caught THEN "" ELSE exc]

\* The try block on the outcomes d and p of its two calls: the first call
\* that raises ends it.
TryBlock(d, p) ==
    IF d.exc # "" THEN Except(d.exc)
    ELSE IF p.exc # "" THEN Except(p.exc)
    ELSE [d |-> d.value, p |-> p.value, exc |-> ""]

distance_and_path(graph, person_id, target_id) ==
    TryBlock(shortest_path_length(graph, person_id, target_id),
             shortest_path(graph, person_id, target_id))

----------------------------------------------------------------------------
\* No query made yet.
NoResult == [source |-> NoId, target |-> NoId, d |-> NoDist, p |-> <<>>, exc |-> ""]

\* An answer kept with the query it answers.
Answer(source, target, r) ==
    [source |-> source, target |-> target, d |-> r.d, p |-> r.p, exc |-> r.exc]

\* No relationship asked for yet, no path rendered yet.
NoLabel == [p1 |-> NoId, p2 |-> NoId, rel |-> "", exc |-> ""]
NoChain == [threshold |-> 0, printed |-> FALSE, parts |-> <<>>, exc |-> ""]
\* The standalone script not started.
NoBfs == [at |-> "off"]

Init ==
    /\ pc = "indi"
    /\ indi = {}
    /\ fams = <<>>
    /\ G = EmptyGraph
    /\ result = NoResult
    /\ people = <<>>
    /\ label = NoLabel
    /\ chain = NoChain
    /\ root = <<>>
    /\ bfs = NoBfs

\* First loop, one INDI element: indi[pid] = name; G.add_node(pid).
ReadIndi ==
    /\ pc = "indi"
    /\ \E p \in Ids :
          /\ indi' = indi \cup {p}
          /\ G' = NodeForIndividual(G, p)
    /\ UNCHANGED <<pc, fams, result, kin>>
    /\ UNCHANGED other

\* Second loop, one FAM element.
ReadFam ==
    /\ pc \in {"indi", "fam"}
    /\ Len(fams) < MaxFams
    /\ \E f \in FamRecords :
          /\ TotalRefs(fams) + Refs(f) <= MaxRefs
          /\ fams' = Append(fams, f)
          /\ G' = AddFamily(G, f)
    /\ pc' = "fam"
    /\ UNCHANGED <<indi, result, kin>>
    /\ UNCHANGED other

\* `return G, indi`.
Return ==
    /\ pc \in {"indi", "fam"}
    /\ pc' = "built"
    /\ UNCHANGED <<indi, fams, G, result, kin>>
    /\ UNCHANGED other

\* One call distance_and_path(G, source, target) on the built graph.
Query ==
    /\ pc = "built"
    /\ pc' = "asked"
    /\ \E source \in Ids, target \in Ids :
          result' = Answer(source, target, distance_and_path(G, source, target))
    /\ UNCHANGED <<indi, fams, G, kin>>
    /\ UNCHANGED other

Next ==
    \/ ReadIndi
    \/ ReadFam
    \/ Return
    \/ Query

Spec == Init /\ [][Next]_vars

----------------------------------------------------------------------------
(* Properties of the path engine and of the graph builder *)

Built == pc \in {"built", "asked"}
Asked == pc = "asked"

\* The graph as a relation, read off the adjacency independently of the search.
Neighbours(g, n) ==
    IF n \in g.nodes THEN {g.adj[n][k] : k \in 1..Len(g.adj[n])} ELSE {}
Degree(g, n) == Cardinality(Neighbours(g, n))

\* The nodes at most k edges away from s.
RECURSIVE Ball(_, _, _)
Ball(g, s, k) ==
    IF k = 0 THEN {s}
    ELSE LET b == Ball(g, s, k - 1)
         IN  b \cup UNION {Neighbours(g, n) : n \in b}

Connected(g, s, t) ==
    s \in g.nodes /\ t \in g.nodes /\ t \in Ball(g, s, Cardinality(g.nodes))

\* The least number of edges of a walk from s to t, for connected s and t.
MinEdges(g, s, t) ==
    CHOOSE k \in 0..Cardinality(g.nodes) :
        /\ t \in Ball(g, s, k)
        /\ k = 0 \/ t \notin Ball(g, s, k - 1)

\* The ids a FAM record names, and the links it states.
Parents(f) == {f.husb, f.wife} \ {NoId}
Children(f) == {f.children[k] : k \in 1..Len(f.children)}
Members(f) == Parents(f) \cup Children(f)
SpousesIn(f, u, v) == f.husb # NoId /\ f.wife # NoId /\ {u, v} = {f.husb, f.wife}
ParentChildIn(f, u, v) == u \in Parents(f) /\ v \in Children(f)
Families == {fams[k] : k \in 1..Len(fams)}

\* C1: whenever distance_and_path answers with a distance d that is not None
\* and a path p, p has d + 1 nodes, starts at the source, ends at the target,
\* and each consecutive pair of p is an edge of the graph.
C1_DistanceAndPathAgree ==
    (Asked /\ result.d # NoDist) =>
        /\ Len(result.p) - 1 = result.d
        /\ result.p[1] = result.source
        /\ result.p[Len(result.p)] = result.target
        /\ \A k \in 1..(Len(result.p) - 1) : has_edge(G, result.p[k], result.p[k + 1])

C1_Witness == Asked /\ result.d = 2 /\ result.source # result.target

\* C2: for two connected nodes the distance returned is the least number of
\* edges of any path between them, and the returned path has that many edges.
C2_DistanceIsMinimum ==
    (Asked /\ Connected(G, result.source, result.target)) =>
        /\ result.d = MinEdges(G, result.source, result.target)
        /\ Len(result.p) = result.d + 1

C2_Witness ==
    /\ Asked /\ Connected(G, result.source, result.target)
    /\ MinEdges(G, result.source, result.target) = 2
    /\ Len(result.p) = 3
    /\ Len(fams) = 2

\* C3: a query whose source or target is not a node of the graph (the two may
\* be the same id) is answered (None, []) and no exception leaves the function.
C3_UnknownNodeGivesNone ==
    (Asked /\ (result.source \notin G.nodes \/ result.target \notin G.nodes)) =>
        /\ result.d = NoDist
        /\ result.p = <<>>
        /\ result.exc = ""

C3_Witness ==
    /\ Asked /\ result.source \in G.nodes /\ result.target \notin G.nodes
    /\ Degree(G, result.source) >= 1

C3_WitnessSame == Asked /\ result.source = result.target /\ result.source \notin G.nodes

\* C4: a query between two nodes of different connected components (such as
\* an individual of no family and anybody else) is answered (None, []) and no
\* exception leaves the function.
C4_DisconnectedGivesNone ==
    (/\ Asked
     /\ result.source \in G.nodes /\ result.target \in G.nodes
     /\ ~Connected(G, result.source, result.target)) =>
        /\ result.d = NoDist
        /\ result.p = <<>>
        /\ result.exc = ""

C4_Witness ==
    /\ Asked
    /\ result.source \in G.nodes /\ result.target \in indi
    /\ Degree(G, result.source) >= 1
    /\ \A f \in Families : result.target \notin Members(f)
    /\ ~Connected(G, result.source, result.target)

\* C5: a query from a node of the graph to itself is answered (0, [x]).
C5_SelfDistanceIsZero ==
    (Asked /\ result.source = result.target /\ result.source \in G.nodes) =>
        /\ result.d = 0
        /\ result.p = <<result.source>>

C5_Witness ==
    /\ Asked /\ result.source = result.target /\ result.source \in G.nodes
    /\ result.d = 0
    /\ Degree(G, result.source) = 0

\* C6: the distance answered for (a, b) is the distance answered for (b, a),
\* and a query along an edge (a, b) of the graph is answered (1, [a, b]).
C6_SymmetricAndEdgeIsOne ==
    Asked =>
        /\ result.d = distance_and_path(G, result.target, result.source).d
        /\ has_edge(G, result.source, result.target) =>
              (result.d = 1 /\ result.p = <<result.source, result.target>>)

\* C7: after the build, two ids are joined by an edge only if some FAM record
\* names them as its husband and wife, or one as husband or wife and the other
\* as a child; so a record without a parent gives no edge, and children are
\* not joined to each other.
C7_EdgesComeFromFamilies ==
    Built =>
        \A u \in G.nodes : \A v \in Neighbours(G, u) :
            \E f \in Families :
                SpousesIn(f, u, v) \/ ParentChildIn(f, u, v) \/ ParentChildIn(f, v, u)

C7_Witness ==
    /\ Built
    /\ \E f \in Families :
          /\ Parents(f) = {}
          /\ \E c1 \in Children(f), c2 \in Children(f) :
                c1 # c2 /\ ~has_edge(G, c1, c2) /\ Degree(G, c1) >= 1

\* C8: after the build, for every FAM record, husband and wife are joined by
\* an edge when both are known individuals, and every recorded parent (also
\* the only one) is joined to every child of the record when both are known
\* individuals.
C8_FamilyLinksAreEdges ==
    Built =>
        \A f \in Families :
            /\ (f.husb \in indi /\ f.wife \in indi) => has_edge(G, f.husb, f.wife)
            /\ \A parent \in Parents(f) \cap indi : \A child \in Children(f) \cap indi :
                  has_edge(G, parent, child) /\ has_edge(G, child, parent)

C8_Witness ==
    /\ Built
    /\ \E f \in Families :
          /\ Cardinality(Parents(f)) = 1
          /\ Parents(f) \subseteq indi
          /\ Children(f) \cap indi # {}
          /\ \A parent \in Parents(f) : parent \notin Children(f)

\* C9: a HUSB, WIFE or CHIL reference to an id without INDI record adds no
\* edge, so after the build every node, and with it every end point of every
\* edge, is a known individual.
C9_NoDanglingNodes ==
    Built =>
        /\ G.nodes \subseteq indi
        /\ \A u \in G.nodes : Neighbours(G, u) \subseteq indi

\* C10: after the build every known individual is a node, and one that no FAM
\* record names has no edge.
C10_IndividualsAreNodes ==
    Built =>
        /\ indi \subseteq G.nodes
        /\ \A x \in indi :
              (\A f \in Families : x \notin Members(f)) => Degree(G, x) = 0

C10_Witness ==
    /\ Built
    /\ \E x \in indi :
          /\ \A f \in Families : x \notin Members(f)
          /\ x \in G.nodes
          /\ \E y \in indi : Degree(G, y) >= 1

\* An adjacency list without a repeated entry.
NoRepeat(s) == \A i \in 1..Len(s), j \in 1..Len(s) : s[i] = s[j] => i = j

\* C11: the built graph is simple for every input: adding an edge it already
\* has leaves it unchanged, no adjacency lists a neighbour twice (at most one
\* edge per unordered pair), and no node has an edge to itself, also when a
\* FAM record names one id as husband and wife or as parent and child.
C11_GraphIsSimple ==
    Built =>
        \A u \in G.nodes :
            /\ NoRepeat(G.adj[u])
            /\ ~has_edge(G, u, u)
            /\ \A v \in Neighbours(G, u) :
                  has_edge(G, v, u) /\ add_edge(G, u, v) = G

----------------------------------------------------------------------------
(* gedcom.parser.Parser: the element dictionary of a parsed file *)

MaxLines == 4    \* SEX, FAMS, FAMC, HUSB, WIFE and CHIL lines of a parsed file

\* FAM pointers live apart from INDI pointers: the k-th FAM record of the
\* file is @F<k>@.
FamBase == 10
FamPtr(k) == FamBase + k
FamPtrs == {FamPtr(k) : k \in 1..MaxFams}

\* An INDI element without sub-lines; a FAM element without sub-lines.
BlankIndi == [sex |-> "", fams |-> {}, famc |-> <<>>]
BlankFam == [husb |-> NoId, wife |-> NoId, children |-> <<>>]

\* The parser object: people maps an INDI pointer to its SEX value (the last
\* one, "" without a SEX line), the values of its FAMS lines and the values
\* of its FAMC lines in file order; fams[k] is the FAM element @F<k>@ with
\* its last HUSB, its last WIFE and its CHIL values in file order.
Parser(ps, fs) == [people |-> ps, fams |-> fs]

IsIndividual(P, x) == x \in DOMAIN P.people
IsFamily(P, x) == x \in {FamPtr(k) : k \in 1..Len(P.fams)}
\* `key in parser.get_element_dictionary()`
InDictionary(P, x) == IsIndividual(P, x) \/ IsFamily(P, x)
FamilyAt(P, x) == P.fams[x - FamBase]

\* parser.get_families(individual): the FAM elements the FAMS lines of the
\* individual name; a value that is no FAM element of the dictionary is
\* skipped.
get_families(P, individual) ==
    {FamilyAt(P, x) : x \in {y \in P.people[individual].fams : IsFamily(P, y)}}

\* IndividualElement.get_gender(): "" without a SEX line.
get_gender(P, individual) == P.people[individual].sex

\* find_sub_element(element, 'FAMC').get_value(): the first FAMC line; a FAM
\* element has none.
FirstFamc(P, x) ==
    IF IsIndividual(P, x) /\ Len(P.people[x].famc) > 0
    THEN P.people[x].famc[1]
    ELSE None

\* parser.get_element_dictionary().get(famc_id) is an element.
HasChildFamily(P, x) == FirstFamc(P, x) # None /\ IsFamily(P, FirstFamc(P, x))
ChildFamily(P, x) == FamilyAt(P, FirstFamc(P, x))

\* The sub-lines of the INDI elements, and the number of lines MaxLines bounds.
IndiLines(ps) ==
    UNION {{<<p, "SEX", k>> : k \in IF ps[p].sex = "" THEN {} ELSE {0}}
           \cup {<<p, "FAMS", x>> : x \in ps[p].fams}
           \cup {<<p, "FAMC", k>> : k \in 1..Len(ps[p].famc)} : p \in DOMAIN ps}
Lines(ps, fs) == Cardinality(IndiLines(ps)) + TotalRefs(fs)

----------------------------------------------------------------------------
(* main.get_relationship *)

\* localization.get_translation(lang, key) for the relationship keys: one
\* label per key.
get_translation(key) ==
    CASE key = "husband_of" -> "husband-of"
      [] key = "wife_of" -> "wife-of"
      [] key = "father_of" -> "father-of"
      [] key = "mother_of" -> "mother-of"
      [] key = "son_of" -> "son-of"
      [] key = "daughter_of" -> "daughter-of"
      [] key = "relative" -> "relative"

\* Check 1 matches: a family of p1 (by its FAMS lines) with both spouses
\* recorded names p1 and p2 as its couple.
IsCouple(family, p1, p2) ==
    /\ family.husb # None
    /\ family.wife # None
    /\ \/ (p1 = family.husb /\ p2 = family.wife)
       \/ (p1 = family.wife /\ p2 = family.husb)
SpouseMatch(P, p1, p2) == \E family \in get_families(P, p1) : IsCouple(family, p1, p2)

\* `if p1.get_gender() == "M"` in checks 1 and 3.
IsMale(P, p1) == get_gender(P, p1) = "M"
SpouseLabelAlwaysHusband(P, p1) == get_translation("husband_of")
SpouseLabel(P, p1) ==
    IF IsMale(P, p1) THEN get_translation("husband_of") ELSE get_translation("wife_of")

\* Check 2 matches: p1 is the husband, or the wife, of the family the first
\* FAMC line of p2 names.
IsHusband(family, p) == family.husb # None /\ p = family.husb
IsWife(family, p) == family.wife # None /\ p = family.wife
FatherMatchByGender(P, p1, p2) ==
    /\ HasChildFamily(P, p2)
    /\ IsHusband(ChildFamily(P, p2), p1) \/ IsWife(ChildFamily(P, p2), p1)
    /\ IsMale(P, p1)
FatherMatch(P, p1, p2) == HasChildFamily(P, p2) /\ IsHusband(ChildFamily(P, p2), p1)
MotherMatch(P, p1, p2) == HasChildFamily(P, p2) /\ IsWife(ChildFamily(P, p2), p1)

\* Check 3 matches: p2 is the husband or the wife of the family the first
\* FAMC line of p1 names.
ChildMatch(P, p1, p2) ==
    /\ HasChildFamily(P, p1)
    /\ IsHusband(ChildFamily(P, p1), p2) \/ IsWife(ChildFamily(P, p1), p2)
ChildLabelAlwaysSon(P, p1) == get_translation("son_of")
ChildLabel(P, p1) ==
    IF IsMale(P, p1) THEN get_translation("son_of") ELSE get_translation("daughter_of")

\* The checks in the order of the code, for two elements of the dictionary
\* of which p1 is an individual.
ChecksParentFirst(P, p1, p2) ==
    IF FatherMatch(P, p1, p2) THEN get_translation("father_of")
    ELSE IF MotherMatch(P, p1, p2) THEN get_translation("mother_of")
    ELSE IF SpouseMatch(P, p1, p2) THEN SpouseLabel(P, p1)
    ELSE IF ChildMatch(P, p1, p2) THEN ChildLabel(P, p1)
    ELSE get_translation("relative")
Checks(P, p1, p2) ==
    IF SpouseMatch(P, p1, p2) THEN SpouseLabel(P, p1)
    ELSE IF FatherMatch(P, p1, p2) THEN get_translation("father_of")
    ELSE IF MotherMatch(P, p1, p2) THEN get_translation("mother_of")
    ELSE IF ChildMatch(P, p1, p2) THEN ChildLabel(P, p1)
    ELSE get_translation("relative")

\* get_relationship(p1_id, p2_id, parser): a KeyError of the dictionary lookup
\* is caught; parser.get_families(p1) raises NotAnActualIndividualError for an
\* element that is no INDI element, and nothing catches it.
get_relationship(P, p1_id, p2_id) ==
    IF ~InDictionary(P, p1_id) \/ ~InDictionary(P, p2_id)
    THEN Value("unknown/non-individual")
    ELSE IF ~IsIndividual(P, p1_id) THEN Raise("NotAnActualIndividualError")
    ELSE Value(Checks(P, p1_id, p2_id))

\* An answer kept with the arguments of its call.
Relationship(p1, p2, r) ==
    [p1 |-> p1, p2 |-> p2, rel |-> IF r.exc = "" THEN r.value ELSE "", exc |-> r.exc]

----------------------------------------------------------------------------
(* build_graph on a whole file *)

RECURSIVE AddIndividuals(_, _)
AddIndividualsFrom(g, pids, pid) == AddIndividuals(NodeForIndividual(g, pid), pids \ {pid})
AddIndividuals(g, pids) ==
    IF pids = {} THEN g ELSE AddIndividualsFrom(g, pids, CHOOSE pid \in pids : TRUE)

RECURSIVE AddFamilies(_, _, _)
AddFamilies(g, fs, k) ==
    IF k > Len(fs) THEN g ELSE AddFamilies(AddFamily(g, fs[k]), fs, k + 1)

\* build_graph: the first loop over the INDI elements, then the second loop
\* over the FAM elements in file order. No edge depends on the order in which
\* the first loop adds the nodes.
build_graph(pids, fs) == AddFamilies(AddIndividuals(EmptyGraph, pids), fs, 1)

----------------------------------------------------------------------------
(* The classifier on every small file: parse, build, classify one pair *)

KinInit ==
    /\ pc = "parse"
    /\ indi = {}
    /\ fams = <<>>
    /\ G = EmptyGraph
    /\ result = NoResult
    /\ people = <<>>
    /\ label = NoLabel
    /\ chain = NoChain
    /\ root = <<>>
    /\ bfs = NoBfs

\* The dictionary with the INDI element p set to record r.
PutIndi(ps, p, r) == [x \in DOMAIN ps \cup {p} |-> IF x = p THEN r ELSE ps[x]]

\* `0 @I<p>@ INDI`: the INDI records of the file are numbered in file order.
ParseIndi ==
    /\ pc = "parse"
    /\ \E p \in {Cardinality(indi) + 1} \cap Ids :
          /\ indi' = indi \cup {p}
          /\ people' = PutIndi(people, p, BlankIndi)
    /\ UNCHANGED <<pc, fams, G, result, label, chain>>
    /\ UNCHANGED other

\* `0 @F<k>@ FAM`
ParseFam ==
    /\ pc = "parse"
    /\ Len(fams) < MaxFams
    /\ fams' = Append(fams, BlankFam)
    /\ UNCHANGED <<pc, indi, G, result, kin>>
    /\ UNCHANGED other

\* `1 SEX M` or `1 SEX F` of an INDI element: the last SEX line counts.
ParseSex ==
    /\ pc = "parse"
    /\ \E p \in indi, sex \in {"M", "F"} :
          /\ people' = [people EXCEPT ![p].sex = sex]
          /\ Lines(people', fams) <= MaxLines
    /\ UNCHANGED <<pc, indi, fams, G, result, label, chain>>
    /\ UNCHANGED other

\* `1 FAMS @F<k>@` of an INDI element; the FAM element need not exist.
ParseFams ==
    /\ pc = "parse"
    /\ \E p \in indi, x \in FamPtrs :
          /\ people' = [people EXCEPT ![p].fams = @ \cup {x}]
          /\ Lines(people', fams) <= MaxLines
    /\ UNCHANGED <<pc, indi, fams, G, result, label, chain>>
    /\ UNCHANGED other

\* `1 FAMC @F<k>@` of an INDI element, after the FAMC lines it already has.
ParseFamc ==
    /\ pc = "parse"
    /\ \E p \in indi, x \in FamPtrs :
          /\ people' = [people EXCEPT ![p].famc = Append(@, x)]
          /\ Lines(people', fams) <= MaxLines
    /\ UNCHANGED <<pc, indi, fams, G, result, label, chain>>
    /\ UNCHANGED other

\* `1 HUSB @I<p>@` of a FAM element: the last HUSB line counts; the INDI
\* element need not exist.
ParseHusb ==
    /\ pc = "parse"
    /\ \E k \in 1..Len(fams), p \in Ids :
          /\ fams' = [fams EXCEPT ![k].husb = p]
          /\ Lines(people, fams') <= MaxLines
    /\ UNCHANGED <<pc, indi, G, result, kin>>
    /\ UNCHANGED other

\* `1 WIFE @I<p>@` of a FAM element.
ParseWife ==
    /\ pc = "parse"
    /\ \E k \in 1..Len(fams), p \in Ids :
          /\ fams' = [fams EXCEPT ![k].wife = p]
          /\ Lines(people, fams') <= MaxLines
    /\ UNCHANGED <<pc, indi, G, result, kin>>
    /\ UNCHANGED other

\* `1 CHIL @I<p>@` of a FAM element, after the CHIL lines it already has.
ParseChil ==
    /\ pc = "parse"
    /\ \E k \in 1..Len(fams), p \in Ids :
          /\ fams' = [fams EXCEPT ![k].children = Append(@, p)]
          /\ Lines(people, fams') <= MaxLines
    /\ UNCHANGED <<pc, indi, G, result, kin>>
    /\ UNCHANGED other

\* parser.parse_file has read the file; build_graph reads the same file.
Load ==
    /\ pc = "parse"
    /\ pc' = "loaded"
    /\ G' = build_graph(indi, fams)
    /\ UNCHANGED <<indi, fams, result, kin>>
    /\ UNCHANGED other

\* The ids get_relationship is called with: an id may name an INDI element,
\* a FAM element or nothing.
Pointers == Ids \cup {FamPtr(1)}

\* One call get_relationship(p1_id, p2_id, parser).
Classify ==
    /\ pc = "loaded"
    /\ pc' = "labelled"
    /\ \E p1 \in Pointers, p2 \in Pointers :
          label' = Relationship(p1, p2, get_relationship(Parser(people, fams), p1, p2))
    /\ UNCHANGED <<indi, fams, G, result, people, chain>>
    /\ UNCHANGED other

KinNext ==
    \/ ParseIndi
    \/ ParseFam
    \/ ParseSex
    \/ ParseFams
    \/ ParseFamc
    \/ ParseHusb
    \/ ParseWife
    \/ ParseChil
    \/ Load
    \/ Classify

KinSpec == KinInit /\ [][KinNext]_vars

----------------------------------------------------------------------------
(* Properties of the classifier *)

Labelled == pc = "labelled"
TheParser == Parser(people, fams)
ParentLabels == {"father-of", "mother-of"}
ChildLabels == {"son-of", "daughter-of"}
SpouseLabels == {"husband-of", "wife-of"}

\* C12: for every parent-child edge (parent, child) the graph builder makes
\* from a FAM record, here between two different known individuals,
\* get_relationship answers father-of or mother-of for (parent, child) and
\* son-of or daughter-of for (child, parent).
C12_ParentChildEdgesLabelled ==
    (Labelled /\ {label.p1, label.p2} \subseteq indi /\ label.p1 # label.p2) =>
        \A f \in Families :
            /\ (ParentChildIn(f, label.p1, label.p2) /\ has_edge(G, label.p1, label.p2))
                  => label.rel \in ParentLabels
            /\ (ParentChildIn(f, label.p2, label.p1) /\ has_edge(G, label.p2, label.p1))
                  => label.rel \in ChildLabels

\* Both arguments of the call name INDI elements.
BothIndividuals == label.p1 \in indi /\ label.p2 \in indi
Sex(p) == people[p].sex

\* C14: for every couple (a, b) a FAM record states as HUSB and WIFE, with a
\* male and b female, get_relationship answers husband-of for (a, b) and
\* wife-of for (b, a).
C14_CoupleLabelled ==
    (Labelled /\ BothIndividuals /\ \E f \in Families : SpousesIn(f, label.p1, label.p2)) =>
        /\ (Sex(label.p1) = "M" /\ Sex(label.p2) = "F") => label.rel = "husband-of"
        /\ (Sex(label.p1) = "F" /\ Sex(label.p2) = "M") => label.rel = "wife-of"

\* C15: when the gender of p1 is unrecorded the classifier takes it as M: a
\* spouse match answers husband-of and a child match answers son-of.
C15_UnrecordedGenderIsMale ==
    (Labelled /\ BothIndividuals /\ Sex(label.p1) = "") =>
        /\ SpouseMatch(TheParser, label.p1, label.p2) => label.rel = "husband-of"
        /\ (/\ ~SpouseMatch(TheParser, label.p1, label.p2)
            /\ ~FatherMatch(TheParser, label.p1, label.p2)
            /\ ~MotherMatch(TheParser, label.p1, label.p2)
            /\ ChildMatch(TheParser, label.p1, label.p2)) => label.rel = "son-of"

\* C16: whenever p1_id or p2_id names no known individual (an id without
\* record, or the id of a FAM record), get_relationship returns
\* 'unknown/non-individual' and raises nothing.
C16_NonIndividualIsUnknown ==
    (Labelled /\ ~BothIndividuals) =>
        label.exc = "" /\ label.rel = "unknown/non-individual"

\* No spouse match for the pair of the call, both individuals.
NoSpouseMatch == Labelled /\ BothIndividuals /\ ~SpouseMatch(TheParser, label.p1, label.p2)

\* C17 as stated: without spouse match, if p1 is the husband of the family
\* in which p2 appears as a child the label is father-of, and if p1 is the
\* wife of that family the label is mother-of.
C17_ParentLabelByRole ==
    (NoSpouseMatch /\ HasChildFamily(TheParser, label.p2)) =>
        /\ ChildFamily(TheParser, label.p2).husb = label.p1 => label.rel = "father-of"
        /\ ChildFamily(TheParser, label.p2).wife = label.p1 => label.rel = "mother-of"

\* C17: without spouse match, if p1 is the husband of the family in which p2
\* appears as a child the label is father-of, and if p1 is the wife and not
\* the husband of that family the label is mother-of, whatever the gender
\* of p1.
C17_ParentLabelHusbandFirst ==
    (NoSpouseMatch /\ HasChildFamily(TheParser, label.p2)) =>
        /\ ChildFamily(TheParser, label.p2).husb = label.p1 => label.rel = "father-of"
        /\ (/\ ChildFamily(TheParser, label.p2).wife = label.p1
            /\ ChildFamily(TheParser, label.p2).husb # label.p1) => label.rel = "mother-of"

C17_Witness ==
    /\ NoSpouseMatch
    /\ label.p1 # label.p2
    /\ HasChildFamily(TheParser, label.p2)
    /\ ChildFamily(TheParser, label.p2).husb = label.p1
    /\ Sex(label.p1) = "F"
    /\ label.rel = "father-of"

\* C18: without spouse match and without parent match, if p2 is the husband
\* or the wife of the family in which p1 appears as a child, the label is
\* son-of when the gender of p1 is M and daughter-of otherwise, and it is the
\* same for every gender p2 could have.
C18_ChildLabelByGender ==
    (/\ NoSpouseMatch
     /\ ~(/\ HasChildFamily(TheParser, label.p2)
          /\ label.p1 \in Parents(ChildFamily(TheParser, label.p2)))
     /\ HasChildFamily(TheParser, label.p1)
     /\ label.p2 \in Parents(ChildFamily(TheParser, label.p1))) =>
        /\ label.rel = IF Sex(label.p1) = "M" THEN "son-of" ELSE "daughter-of"
        /\ label.p1 # label.p2 =>
              \A sex \in {"", "M", "F"} :
                 get_relationship(Parser([people EXCEPT ![label.p2].sex = sex], fams),
                                  label.p1, label.p2) = Value(label.rel)

C18_Witness ==
    /\ NoSpouseMatch
    /\ HasChildFamily(TheParser, label.p1)
    /\ ChildFamily(TheParser, label.p1).wife = label.p2
    /\ Sex(label.p1) = "M"
    /\ Sex(label.p2) = "F"
    /\ label.rel = "son-of"


\* The matches of the checks on the pair asked about.
SpouseHit == SpouseMatch(TheParser, label.p1, label.p2)
ParentHit == FatherMatch(TheParser, label.p1, label.p2) \/ MotherMatch(TheParser, label.p1, label.p2)
ChildHit == ChildMatch(TheParser, label.p1, label.p2)

\* C24: the checks are applied in the order spouse, parent, child, and the
\* first that matches gives the label: a couple of a family of p1 is labelled
\* husband-of or wife-of also when the records make one the parent of the
\* other, a pair that matches the parent and the child check gets the parent
\* label, and a pair no check matches is labelled 'relative'.
C24_FirstMatchWins ==
    (Labelled /\ BothIndividuals) =>
        /\ SpouseHit => label.rel \in SpouseLabels
        /\ (~SpouseHit /\ ParentHit) => label.rel \in ParentLabels
        /\ (~SpouseHit /\ ~ParentHit /\ ChildHit) => label.rel \in ChildLabels
        /\ (~SpouseHit /\ ~ParentHit /\ ~ChildHit) => label.rel = "relative"

\* A couple whose records also make one of the two a parent of the other.
C24_Witness ==
    /\ Labelled
    /\ BothIndividuals
    /\ label.p1 # label.p2
    /\ SpouseHit
    /\ ParentHit
    /\ label.rel = "wife-of"

\* A pair that matches the parent check and the child check.
ParentAndChild ==
    /\ Labelled
    /\ BothIndividuals
    /\ label.p1 # label.p2
    /\ ~SpouseHit
    /\ ParentHit
    /\ ChildHit
    /\ label.rel \in ParentLabels

----------------------------------------------------------------------------
(* main.main: the enrichment of one event, and main.build_issue_body: the
   readable path *)

MaxThreshold == 2    \* DISTANCE_THRESHOLD is one of 0..MaxThreshold

\* `dist = 999`: the distance of an event without path.
Sentinel == 999

\* id2name: the dict build_graph returns, pointer -> NAME value. The NAME
\* value of @I<p>@ is written -p, which is no pointer.
NameOf(pid) == 0 - pid
id2name == [pid \in indi |-> NameOf(pid)]
\* id2name.get(p_id, p_id)
id2name_get(names, p_id) == IF p_id \in DOMAIN names THEN names[p_id] ELSE p_id

\* `dist, path = 999, []`, replaced by the answer of distance_and_path when
\* PERSONID and gedcom_id are set and the distance is not None.
NoPathFound == [d |-> Sentinel, p |-> <<>>, exc |-> ""]
KeepFound(r) == IF r.exc = "" /\ r.d = NoDist THEN NoPathFound ELSE r
Enriched(graph, PERSONID, gedcom_id) ==
    IF PERSONID = None \/ gedcom_id = None THEN NoPathFound
    ELSE KeepFound(distance_and_path(graph, PERSONID, gedcom_id))

\* `list(reversed(path))`
reversed_path_unreversed(path) == path
reversed_path(path) == Reverse(path)

\* f"{p1_name} ({relationship})" as the pair of its two fields; the last
\* name stands alone.
PathPart(P, names, p1_id, p2_id) ==
    <<id2name_get(names, p1_id), get_relationship(P, p1_id, p2_id).value>>
LastPart(names, p_id) == <<id2name_get(names, p_id)>>

PathPartsBareFirst(P, names, rp, i) ==
    [k \in 1..Len(rp) |->
        IF k = 1 THEN LastPart(names, rp[1]) ELSE PathPart(P, names, rp[k], rp[k - 1])]
RECURSIVE PathParts(_, _, _, _)
PathParts(P, names, rp, i) ==
    IF i > Len(rp) - 1 THEN <<LastPart(names, rp[Len(rp)])>>
    ELSE <<PathPart(P, names, rp[i], rp[i + 1])>> \o PathParts(P, names, rp, i + 1)

\* The calls of get_relationship that raise while the path is rendered.
Raising(P, rp) ==
    {i \in 1..(Len(rp) - 1) : get_relationship(P, rp[i], rp[i + 1]).exc # ""}
FirstRaise(P, rp, i) == Raise(get_relationship(P, rp[i], rp[i + 1]).exc)

\* path_parts for a path that is not empty: an exception of get_relationship
\* leaves build_issue_body.
readable_path(P, names, rp) ==
    IF Raising(P, rp) # {}
    THEN FirstRaise(P, rp, CHOOSE i \in Raising(P, rp) : \A j \in Raising(P, rp) : i <= j)
    ELSE Value(PathParts(P, names, rp, 1))

\* `if person_id and dist is not None and dist > distance_threshold and path:`
PathIsPrintedFromThreshold(person_id, dist, distance_threshold, path) ==
    person_id # None /\ dist # NoDist /\ dist >= distance_threshold /\ path # <<>>
PathIsPrinted(person_id, dist, distance_threshold, path) ==
    person_id # None /\ dist # NoDist /\ dist > distance_threshold /\ path # <<>>

Rendered(distance_threshold, r) ==
    [threshold |-> distance_threshold, printed |-> r.exc = "",
     parts |-> r.value, exc |-> r.exc]
NotRendered(distance_threshold) == [NoChain EXCEPT !.threshold = distance_threshold]

\* The path lines of one event of build_issue_body.
EventPath(P, names, person_id, r, distance_threshold) ==
    IF PathIsPrinted(person_id, r.d, distance_threshold, r.p)
    THEN Rendered(distance_threshold, readable_path(P, names, reversed_path(r.p)))
    ELSE NotRendered(distance_threshold)

----------------------------------------------------------------------------
(* The four-person tree of test_gedcom_graph.py, with every choice of SEX
   lines and of the FAMS and FAMC lines that mirror its FAM records *)

TreeIds == 1..4
TreeFams ==
    << [husb |-> 1, wife |-> 2, children |-> <<3>>],
       [husb |-> 3, wife |-> 4, children |-> <<>>] >>

\* The FAMS and FAMC lines that mirror TreeFams.
TreeLinks ==
    [p \in TreeIds |->
        [fams |-> IF p \in {1, 2} THEN {FamPtr(1)} ELSE {FamPtr(2)},
         famc |-> IF p = 3 THEN <<FamPtr(1)>> ELSE <<>>]]

TreeRecords ==
    [sex : {"", "M", "F"}, fams : {{}, {FamPtr(1)}, {FamPtr(2)}}, famc : {<<>>, <<FamPtr(1)>>}]

TreePeople ==
    {ps \in [TreeIds -> TreeRecords] :
        \A p \in TreeIds :
            /\ ps[p].fams \subseteq TreeLinks[p].fams
            /\ ps[p].famc \in {<<>>, TreeLinks[p].famc}}

TreeInit ==
    /\ pc = "parse"
    /\ indi = TreeIds
    /\ fams = TreeFams
    /\ people \in TreePeople
    /\ G = EmptyGraph
    /\ result = NoResult
    /\ label = NoLabel
    /\ chain = NoChain
    /\ root = <<>>
    /\ bfs = NoBfs

\* One event of the enrichment loop of main: PERSONID may be unset.
Enrich ==
    /\ pc = "loaded"
    /\ pc' = "enriched"
    /\ \E PERSONID \in G.nodes \cup {None}, gedcom_id \in G.nodes :
          result' = Answer(PERSONID, gedcom_id, Enriched(G, PERSONID, gedcom_id))
    /\ UNCHANGED <<indi, fams, G, kin>>
    /\ UNCHANGED other

\* build_issue_body on that event.
Render ==
    /\ pc = "enriched"
    /\ pc' = "rendered"
    /\ \E distance_threshold \in 0..MaxThreshold :
          chain' = EventPath(Parser(people, fams), id2name, result.source, result,
                             distance_threshold)
    /\ UNCHANGED <<indi, fams, G, result, people, label>>
    /\ UNCHANGED other

TreeNext ==
    \/ Load
    \/ Enrich
    \/ Render

TreeSpec == TreeInit /\ [][TreeNext]_vars

----------------------------------------------------------------------------
(* Properties of the readable path *)

Printed == pc = "rendered" /\ chain.printed
CanonicalLabels == SpouseLabels \cup ParentLabels \cup ChildLabels

\* The labelled parts of the chain: all but the last.
LabelledParts == {k \in 1..Len(chain.parts) : Len(chain.parts[k]) = 2}

\* C13: for every graph built from a file and every path the path engine
\* returns on it, each pair of consecutive path nodes is classified with a
\* canonical label (spouse, parent or child); 'relative' is never the label
\* of two adjacent path nodes.
C13_PathLabelsAreCanonical ==
    Printed =>
        /\ \A k \in LabelledParts : chain.parts[k][2] \in CanonicalLabels
        /\ \A k \in 1..(Len(result.p) - 1) :
              /\ get_relationship(TheParser, result.p[k], result.p[k + 1]).value
                    \in CanonicalLabels
              /\ get_relationship(TheParser, result.p[k + 1], result.p[k]).value
                    \in CanonicalLabels

\* The path of the event, its number of edges, and its node that the k-th
\* part of the chain names: the chain runs from the target back to the source.
ThePath == result.p
PathEdges == Len(ThePath) - 1
NodeOfPart(k) == ThePath[Len(ThePath) + 1 - k]

\* C19: for a path [v0, ..., vn] with n >= 1 the chain names vn, ..., v0 in
\* this order; each of the first n names is followed by the label
\* get_relationship gives for (that id, the next id of the chain); the last
\* name, the source, stands alone; the chain has exactly n = distance labels.
C19_ChainRunsFromTargetToSource ==
    Printed =>
        /\ PathEdges >= 1
        /\ Len(chain.parts) = PathEdges + 1
        /\ \A k \in 1..PathEdges :
              chain.parts[k] =
                 << id2name_get(id2name, NodeOfPart(k)),
                    get_relationship(TheParser, NodeOfPart(k), NodeOfPart(k + 1)).value >>
        /\ chain.parts[PathEdges + 1] = << id2name_get(id2name, result.source) >>
        /\ ThePath[1] = result.source
        /\ Cardinality(LabelledParts) = PathEdges
        /\ PathEdges = result.d

C19_Witness ==
    /\ Printed
    /\ result.d = 2
    /\ chain.parts[1][2] = "wife-of"
    /\ chain.parts[2][2] = "daughter-of"

\* The scenario: I1 male and husband, I2 female and wife, I3 their child, I4
\* female and spouse of I3, every INDI record with the FAMS and FAMC lines
\* that mirror the FAM records.
Scenario ==
    /\ \A p \in TreeIds : people[p].fams = TreeLinks[p].fams /\ people[p].famc = TreeLinks[p].famc
    /\ Sex(1) = "M"
    /\ Sex(2) = "F"
    /\ Sex(4) = "F"

\* C20 as stated: in the scenario, rendering the path found between I1 and
\* I4, [I1, I3, I4], gives the chain 'I1 (father-of) I3 (husband-of) I4'.
C20_ScenarioChain ==
    (Printed /\ Scenario /\ ThePath = <<1, 3, 4>>) =>
        chain.parts = << <<NameOf(1), "father-of">>, <<NameOf(3), "husband-of">>, <<NameOf(4)>> >>

\* C20: in the scenario with I3 male, rendering the path found from I1 to
\* I4, [I1, I3, I4], gives the chain 'I4 (wife-of) I3 (son-of) I1', and
\* rendering the path found from I4 to I1, [I4, I3, I1], gives the chain
\* 'I1 (father-of) I3 (husband-of) I4'.
C20_ScenarioChainFromTarget ==
    (Printed /\ Scenario /\ Sex(3) = "M") =>
        /\ ThePath = <<1, 3, 4>> =>
              chain.parts = << <<NameOf(4), "wife-of">>, <<NameOf(3), "son-of">>, <<NameOf(1)>> >>
        /\ ThePath = <<4, 3, 1>> =>
              chain.parts = << <<NameOf(1), "father-of">>, <<NameOf(3), "husband-of">>, <<NameOf(4)>> >>

C20_Witness ==
    /\ Printed
    /\ Scenario
    /\ Sex(3) = "M"
    /\ result.source = 1
    /\ result.target = 4
    /\ ThePath = <<1, 3, 4>>
    /\ Len(chain.parts) = 3


\* C26 as stated: the very first name of the rendered chain carries no
\* relationship, and each name that follows it carries one.
C26_FirstNameBare ==
    Printed =>
        /\ Len(chain.parts[1]) = 1
        /\ \A k \in 2..Len(chain.parts) : Len(chain.parts[k]) = 2

\* C26: the name without a relationship is the last one of the rendered
\* chain, the source; a relationship is computed for every name before it,
\* the very first one (the target) included, each with the name that follows.
C26_LastNameBare ==
    Printed =>
        /\ Len(chain.parts) >= 2
        /\ Len(chain.parts[Len(chain.parts)]) = 1
        /\ \A k \in 1..(Len(chain.parts) - 1) : Len(chain.parts[k]) = 2
        /\ chain.parts[1] =
              << id2name_get(id2name, result.target),
                 get_relationship(TheParser, result.target, NodeOfPart(2)).value >>

C26_Witness ==
    /\ Printed
    /\ result.source = 1
    /\ result.target = 3
    /\ chain.parts = << <<NameOf(3), "son-of">>, <<NameOf(1)>> >>

----------------------------------------------------------------------------
(* A run after the build: any number of distance_and_path and
   get_relationship calls on the graph and the parser of one file *)

\* An id no record of the file bears.
Stranger == Cardinality(TreeIds) + 1
CallIds == TreeIds \cup {Stranger, FamPtr(1)}

SessionInit ==
    /\ TreeInit
    /\ \A p \in TreeIds : people[p].sex = IF p \in {1, 3} THEN "M" ELSE "F"
    /\ \A p \in {1, 2} : people[p].fams = TreeLinks[p].fams

\* The graph after a call distance_and_path(graph, person_id, target_id):
\* neither the function nor the networkx searches assign to it.
graph_with_asked_nodes(graph, person_id, target_id) ==
    add_node(add_node(graph, person_id), target_id)
graph_after_distance_and_path(graph, person_id, target_id) == graph

\* One more call distance_and_path(G, person_id, target_id).
AskDistance ==
    /\ pc = "loaded"
    /\ \E person_id \in CallIds, target_id \in CallIds :
          /\ result' = Answer(person_id, target_id, distance_and_path(G, person_id, target_id))
          /\ G' = graph_after_distance_and_path(G, person_id, target_id)
    /\ UNCHANGED <<pc, indi, fams, kin>>
    /\ UNCHANGED other

\* One more call get_relationship(p1_id, p2_id, parser).
AskRelationship ==
    /\ pc = "loaded"
    /\ \E p1 \in CallIds, p2 \in CallIds :
          label' = Relationship(p1, p2, get_relationship(Parser(people, fams), p1, p2))
    /\ UNCHANGED <<pc, indi, fams, G, result, people, chain>>
    /\ UNCHANGED other

SessionNext ==
    \/ Load
    \/ AskDistance
    \/ AskRelationship

SessionSpec == SessionInit /\ [][SessionNext]_vars

\* The answers the calls whose results are kept would get as the only calls
\* on the graph and the parser of the file.
OnlyDistance(r) ==
    Answer(r.source, r.target, distance_and_path(build_graph(indi, fams), r.source, r.target))
OnlyRelationship(l) ==
    Relationship(l.p1, l.p2, get_relationship(Parser(people, fams), l.p1, l.p2))

----------------------------------------------------------------------------
(* The record index: the first loop of build_graph over a file whose INDI
   records may bear the same pointer *)

MaxRecords == 4

IndexInit == Init

\* One INDI element of root: indi[pid] = name; G.add_node(pid, name=name).
\* An assignment to a key the dict already holds replaces its value.
ReadRecord ==
    /\ pc = "indi"
    /\ Len(root) < MaxRecords
    /\ \E pid \in Ids :
          /\ root' = Append(root, pid)
          /\ indi' = indi \cup {pid}
          /\ G' = NodeForIndividual(G, pid)
    /\ UNCHANGED <<pc, fams, result, kin, bfs>>

IndexNext ==
    \/ ReadRecord
    \/ Return

IndexSpec == IndexInit /\ [][IndexNext]_vars

\* C22: a file in which two records bear the same identifier yields no graph:
\* a build that returns has read no identifier twice.
C22_DuplicateIdentifierAborts == Built => NoRepeat(root)

----------------------------------------------------------------------------
(* The enrichment loop and the path lines of main on the four-person tree,
   whole or without its second family, for events of one person and for
   marriage events *)

EventFams == {TreeFams, SubSeq(TreeFams, 1, 1)}

EventInit ==
    /\ pc = "parse"
    /\ indi = TreeIds
    /\ fams \in EventFams
    /\ people = [p \in TreeIds |->
                    [sex |-> IF p \in {1, 3} THEN "M" ELSE "F",
                     fams |-> TreeLinks[p].fams, famc |-> TreeLinks[p].famc]]
    /\ G = EmptyGraph
    /\ result = NoResult
    /\ label = NoLabel
    /\ chain = NoChain
    /\ root = <<>>
    /\ bfs = NoBfs

\* PERSONID as the environment gives it, and the ids an event can bear.
EventPersons == TreeIds \cup {None, Stranger}
EventIds == TreeIds \cup {Stranger}

\* Lines 323-326: an event of one person.
EnrichIndividual ==
    /\ pc = "loaded"
    /\ pc' = "enriched"
    /\ \E PERSONID \in EventPersons, gedcom_id \in EventIds :
          result' = Answer(PERSONID, gedcom_id, Enriched(G, PERSONID, gedcom_id))
    /\ UNCHANGED <<indi, fams, G, kin>>
    /\ UNCHANGED other

\* Lines 317-321: `if dist1 is not None and (dist2 is None or dist1 <= dist2)`
\* keeps the husband's answer, `elif dist2 is not None` the wife's, and
\* otherwise 999 and [] stay.
ShorterPathWifeOnTie(r1, r2) ==
    IF r1.d # NoDist /\ (r2.d = NoDist \/ r1.d < r2.d) THEN r1
    ELSE IF r2.d # NoDist THEN r2
    ELSE NoPathFound
ShorterPath(r1, r2) ==
    IF r1.d # NoDist /\ (r2.d = NoDist \/ r1.d <= r2.d) THEN r1
    ELSE IF r2.d # NoDist THEN r2
    ELSE NoPathFound

\* Lines 311-321: gedcom_id holds "husband_id,wife_id".
EnrichedMarriage(graph, PERSONID, husband_id, wife_id) ==
    IF PERSONID = None THEN NoPathFound
    ELSE ShorterPath(distance_and_path(graph, PERSONID, husband_id),
                     distance_and_path(graph, PERSONID, wife_id))

\* The answer kept for a marriage event, with the two ids of the event.
MarriageAnswer(PERSONID, husband_id, wife_id, r) ==
    [source |-> PERSONID, target |-> husband_id, wife |-> wife_id,
     d |-> r.d, p |-> r.p, exc |-> r.exc]

EnrichMarriage ==
    /\ pc = "loaded"
    /\ pc' = "enriched"
    /\ \E PERSONID \in EventPersons, husband_id \in EventIds, wife_id \in EventIds :
          result' = MarriageAnswer(PERSONID, husband_id, wife_id,
                                   EnrichedMarriage(G, PERSONID, husband_id, wife_id))
    /\ UNCHANGED <<indi, fams, G, kin>>
    /\ UNCHANGED other

EventNext ==
    \/ Load
    \/ EnrichIndividual
    \/ EnrichMarriage
    \/ Render

EventSpec == EventInit /\ [][EventNext]_vars

IsMarriage == "wife" \in DOMAIN result
\* The persons of the event.
EventPeople == IF IsMarriage THEN {result.target, result.wife} ELSE {result.target}
Reachable(p) == result.source # None /\ Connected(G, result.source, p)

\* C23: the path of an event is printed exactly when the reference person is
\* set, the distance is not None and strictly greater than the threshold, and
\* the path is not empty; an event none of whose persons is known to the
\* graph and reachable from the reference person carries the sentinel 999 and
\* the empty path, and no path is printed for it whatever the threshold.
C23_PathPrintedIff ==
    pc = "rendered" =>
        /\ chain.printed <=>
              /\ result.source # None
              /\ result.d # NoDist
              /\ result.d > chain.threshold
              /\ result.p # <<>>
        /\ (\A p \in EventPeople : ~Reachable(p)) =>
              /\ result.d = Sentinel
              /\ result.p = <<>>
              /\ ~chain.printed

\* An event of a person the reference person cannot reach, rendered.
C23_Witness ==
    /\ pc = "rendered"
    /\ ~IsMarriage
    /\ result.source = 1
    /\ result.target = 4
    /\ ~Reachable(4)
    /\ result.d = Sentinel
    /\ ~chain.printed

\* The distance of a person of the event from the reference person, read off
\* the graph independently of the search.
Nearer(p, q) == Reachable(p) /\ (~Reachable(q) \/ MinEdges(G, result.source, p) <= MinEdges(G, result.source, q))
StrictlyNearer(p, q) == Reachable(p) /\ (~Reachable(q) \/ MinEdges(G, result.source, p) < MinEdges(G, result.source, q))
KeptFor(p) ==
    /\ result.d = MinEdges(G, result.source, p)
    /\ Len(result.p) = result.d + 1
    /\ result.p[1] = result.source
    /\ result.p[Len(result.p)] = p

\* C27: for a marriage event the enrichment keeps the distance and the path
\* of the spouse nearer to the reference person, the husband's when the two
\* distances are equal, those of the one spouse that is reachable when only
\* one is, and the sentinel 999 with the empty path when neither is known and
\* reachable; a kept path ends at the spouse whose distance was kept.
C27_MarriageKeepsNearerSpouse ==
    pc \in {"enriched", "rendered"} /\ IsMarriage =>
        /\ Nearer(result.target, result.wife) => KeptFor(result.target)
        /\ StrictlyNearer(result.wife, result.target) => KeptFor(result.wife)
        /\ ~Reachable(result.target) /\ ~Reachable(result.wife) =>
              result.d = Sentinel /\ result.p = <<>>

\* Both spouses one edge from the reference person: the husband's path is kept.
C27_Witness ==
    /\ pc = "enriched"
    /\ IsMarriage
    /\ result.source = 3
    /\ result.target = 2
    /\ result.wife = 1
    /\ result.p = <<3, 2>>

----------------------------------------------------------------------------
(* Ties: files of two families over four individuals, in which two persons
   can be joined by several shortest paths *)

TieChildren == {<<>>, <<3>>, <<4>>, <<3, 4>>, <<4, 3>>}
TieFams == [husb : {None, 1, 2}, wife : {None, 1, 2}, children : TieChildren]

TieInit ==
    /\ pc = "parse"
    /\ indi = TreeIds
    /\ fams \in [1..2 -> TieFams]
    /\ people = [p \in TreeIds |-> BlankIndi]
    /\ G = EmptyGraph
    /\ result = NoResult
    /\ label = NoLabel
    /\ chain = NoChain
    /\ root = <<>>
    /\ bfs = NoBfs

TieNext ==
    \/ Load
    \/ AskDistance

TieSpec == TieInit /\ [][TieNext]_vars

\* A breadth-first search from the source alone that visits the neighbours
\* of a node in the order in which its edges were inserted: the node through
\* which each node is first discovered.
Unseen(g, v, parent) == SelectSeq(g.adj[v], LAMBDA w : w \notin DOMAIN parent)
RECURSIVE Adopt(_, _, _, _)
Adopt(parent, v, ws, k) ==
    IF k > Len(ws) THEN parent
    ELSE Adopt(IF ws[k] \in DOMAIN parent THEN parent ELSE SetKey(parent, ws[k], v), v, ws, k + 1)
RECURSIVE Discovery(_, _, _)
Discovery(g, queue, parent) ==
    IF queue = <<>> THEN parent
    ELSE Discovery(g, Tail(queue) \o Unseen(g, Head(queue), parent),
                   Adopt(parent, Head(queue), Unseen(g, Head(queue), parent), 1))
RECURSIVE Ascent(_, _, _)
Ascent(parent, s, t) ==
    IF t = s THEN <<s>> ELSE Append(Ascent(parent, s, parent[t]), t)
FirstDiscovered(g, s, t) == Ascent(Discovery(g, <<s>>, Dict1(s, s)), s, t)

\* C25: between two connected persons the path returned is the one a
\* breadth-first search from the source discovers first when it visits the
\* neighbours of each node in edge insertion order.
C25_FirstDiscoveredPath ==
    (pc = "loaded" /\ Connected(G, result.source, result.target)) =>
        result.p = FirstDiscovered(G, result.source, result.target)

----------------------------------------------------------------------------
(* calculate_distance.py: the graph the standalone script builds from the
   INDI records, as the dict of neighbour sets it is *)

\* Lines 31-42: the HUSB and WIFE values of the families the FAMC lines of
\* indi_id name, when the family and the individual exist.  A FAM record
\* stands for an element with at most one HUSB and one WIFE line.
LinkToParents(P, indi_id) ==
    {q \in DOMAIN P.people :
        \E k \in 1..Len(P.people[indi_id].famc) :
            /\ IsFamily(P, P.people[indi_id].famc[k])
            /\ q \in {FamilyAt(P, P.people[indi_id].famc[k]).husb,
                      FamilyAt(P, P.people[indi_id].famc[k]).wife}}

\* Lines 43-54: the HUSB and WIFE values, other than indi_id, of the
\* families the FAMS lines of indi_id name.
LinkToSpouse(P, indi_id) ==
    {q \in DOMAIN P.people \ {indi_id} :
        \E fam_id \in P.people[indi_id].fams :
            /\ IsFamily(P, fam_id)
            /\ q \in {FamilyAt(P, fam_id).husb, FamilyAt(P, fam_id).wife}}

\* graph[indi_id].add(q) and graph[q].add(indi_id) for each link found.
LinksOf(P, indi_id) == LinkToParents(P, indi_id) \cup LinkToSpouse(P, indi_id)
build_family_graph(P) ==
    [indi_id \in DOMAIN P.people |->
        LinksOf(P, indi_id) \cup {q \in DOMAIN P.people : indi_id \in LinksOf(P, q)}]

\* Every HUSB, WIFE and CHIL value names an INDI element.
Resolved == \A f \in Families : Members(f) \subseteq DOMAIN people
\* Every link of a FAM element is repeated by a FAMS or FAMC line of the
\* individual it names, and every FAMS or FAMC line by the FAM element.
FamcOf(p) == {people[p].famc[k] : k \in 1..Len(people[p].famc)}
Mirrored ==
    /\ \A k \in 1..Len(fams) :
          /\ \A p \in Parents(fams[k]) \cap DOMAIN people : FamPtr(k) \in people[p].fams
          /\ \A p \in Children(fams[k]) \cap DOMAIN people : FamPtr(k) \in FamcOf(p)
    /\ \A p \in DOMAIN people :
          /\ \A x \in people[p].fams :
                IsFamily(TheParser, x) /\ p \in Parents(FamilyAt(TheParser, x))
          /\ \A x \in FamcOf(p) :
                IsFamily(TheParser, x) /\ p \in Children(FamilyAt(TheParser, x))

\* C29: on a file all of whose HUSB, WIFE and CHIL values name individuals
\* and whose family-side links and FAMS/FAMC lines mirror each other,
\* build_graph and build_family_graph give the same nodes and the same
\* undirected edges.
C29_BuildersAgree ==
    (pc = "loaded" /\ Resolved /\ Mirrored) =>
        /\ G.nodes = DOMAIN build_family_graph(TheParser)
        /\ \A u \in G.nodes, v \in G.nodes :
              has_edge(G, u, v) <=> v \in build_family_graph(TheParser)[u]

\* The same without a family that names one individual as HUSB and as WIFE.
NoSelfCouple == \A f \in Families : f.husb = None \/ f.husb # f.wife
BuildersAgreeOnCouplesOfTwo ==
    (pc = "loaded" /\ Resolved /\ Mirrored /\ NoSelfCouple) =>
        /\ G.nodes = DOMAIN build_family_graph(TheParser)
        /\ \A u \in G.nodes, v \in G.nodes :
              has_edge(G, u, v) <=> v \in build_family_graph(TheParser)[u]

----------------------------------------------------------------------------
(* calculate_distance.py: calculate_distances and find_path, one iteration of
   their while loops at a time, on the graph built from the four-person tree
   with any part of its FAMS and FAMC lines *)

\* `for neighbor in graph[current_node]` iterates a set: in some order, the
\* same each time the set is iterated during one run.
Orders(S) == {o \in [1..Cardinality(S) -> S] : \A i, j \in 1..Cardinality(S) : o[i] = o[j] => i = j}
Iterations(graph) == {it \in [DOMAIN graph -> UNION {Orders(graph[n]) : n \in DOMAIN graph}] :
                         \A n \in DOMAIN graph : it[n] \in Orders(graph[n])}

ScriptInit ==
    /\ TreeInit
    /\ \A p \in TreeIds : people[p].sex = ""

\* build_family_graph(gedcom_file)
BuildFamilyGraph ==
    /\ bfs.at = "off"
    /\ \E it \in Iterations(build_family_graph(Parser(people, fams))) :
          bfs' = [at |-> "built", graph |-> it]
    /\ UNCHANGED <<pc, indi, fams, G, result, kin, root>>

\* The number of times each node was appended to the queue of the traversal
\* under way.
Enqueued(nodes, start_node) == [n \in nodes |-> IF n = start_node THEN 1 ELSE 0]

\* calculate_distances, lines 64-66.
StartDistances ==
    /\ bfs.at = "built"
    /\ \E start_node \in DOMAIN bfs.graph, end_node \in DOMAIN bfs.graph \cup {Stranger} :
          bfs' = [at |-> "distances", graph |-> bfs.graph,
                  start_node |-> start_node, end_node |-> end_node,
                  distances |-> [n \in DOMAIN bfs.graph |-> IF n = start_node THEN 0 ELSE 0 - 1],
                  queue |-> <<start_node>>,
                  enq |-> Enqueued(DOMAIN bfs.graph, start_node)]
    /\ UNCHANGED <<pc, indi, fams, G, result, kin, root>>

\* `if distances[neighbor] == -1`
UnassignedOrNotStart(distances, neighbor) == distances[neighbor] # 0
Unassigned(distances, neighbor) == distances[neighbor] = 0 - 1
\* `distances[current_node] + 1`
SameDistance(distances, current_node) == distances[current_node]
NextDistance(distances, current_node) == distances[current_node] + 1

\* Lines 70-73: the for loop over the neighbours ws of current_node.
RECURSIVE Relax(_, _, _, _, _, _)
Relax(distances, queue, enq, current_node, ws, k) ==
    IF k > Len(ws) THEN [distances |-> distances, queue |-> queue, enq |-> enq]
    ELSE IF Unassigned(distances, ws[k])
    THEN Relax([distances EXCEPT ![ws[k]] = NextDistance(distances, current_node)],
               Append(queue, ws[k]), [enq EXCEPT ![ws[k]] = @ + 1], current_node, ws, k + 1)
    ELSE Relax(distances, queue, enq, current_node, ws, k + 1)

Relaxed(b, r) == [b EXCEPT !.distances = r.distances, !.queue = r.queue, !.enq = r.enq]

\* Lines 68-73: one iteration of `while queue`.
StepDistances ==
    /\ bfs.at = "distances"
    /\ bfs.queue # <<>>
    /\ bfs' = Relaxed(bfs, Relax(bfs.distances, Tail(bfs.queue), bfs.enq, Head(bfs.queue),
                                 bfs.graph[Head(bfs.queue)], 1))
    /\ UNCHANGED <<pc, indi, fams, G, result, kin, root>>

\* calculate_distances returns; find_path(graph, start_node, end_node), lines
\* 77-78.  The queue holds pairs (node, path).
StartPath ==
    /\ bfs.at = "distances"
    /\ bfs.queue = <<>>
    /\ bfs' = [at |-> "path", graph |-> bfs.graph,
               start_node |-> bfs.start_node, end_node |-> bfs.end_node,
               distances |-> bfs.distances,
               queue |-> << <<bfs.start_node, <<bfs.start_node>>>> >>,
               visited |-> {bfs.start_node},
               enq |-> Enqueued(DOMAIN bfs.graph, bfs.start_node)]
    /\ UNCHANGED <<pc, indi, fams, G, result, kin, root>>

\* Lines 86-89: the for loop over the neighbours ws of the node popped.
RECURSIVE Visit(_, _, _, _, _, _)
Visit(visited, queue, enq, path, ws, k) ==
    IF k > Len(ws) THEN [visited |-> visited, queue |-> queue, enq |-> enq]
    ELSE IF ws[k] \notin visited
    THEN Visit(visited \cup {ws[k]}, Append(queue, <<ws[k], Append(path, ws[k])>>),
               [enq EXCEPT ![ws[k]] = @ + 1], path, ws, k + 1)
    ELSE Visit(visited, queue, enq, path, ws, k + 1)

Visited(b, r) == [b EXCEPT !.visited = r.visited, !.queue = r.queue, !.enq = r.enq]

\* The script over: find_path has returned a path or None.
Returned(b, answer, path) ==
    [at |-> "done", graph |-> b.graph, start_node |-> b.start_node, end_node |-> b.end_node,
     distances |-> b.distances, answer |-> answer, path |-> path]

\* Lines 80-89: one iteration of `while queue`.
StepPath ==
    /\ bfs.at = "path"
    /\ bfs.queue # <<>>
    /\ bfs' = IF Head(bfs.queue)[1] = bfs.end_node
              THEN Returned(bfs, "path", Head(bfs.queue)[2])
              ELSE Visited(bfs, Visit(bfs.visited, Tail(bfs.queue), bfs.enq, Head(bfs.queue)[2],
                                      bfs.graph[Head(bfs.queue)[1]], 1))
    /\ UNCHANGED <<pc, indi, fams, G, result, kin, root>>

\* Line 90: `return None`
ReturnNone ==
    /\ bfs.at = "path"
    /\ bfs.queue = <<>>
    /\ bfs' = Returned(bfs, "None", <<>>)
    /\ UNCHANGED <<pc, indi, fams, G, result, kin, root>>

ScriptNext ==
    \/ BuildFamilyGraph
    \/ StartDistances
    \/ StepDistances
    \/ StartPath
    \/ StepPath
    \/ ReturnNone

ScriptSpec == ScriptInit /\ [][ScriptNext]_vars

\* The interpreter keeps executing a traversal that has begun: each
\* iteration of a while loop and each return that can be taken is taken.
ScriptFairSpec ==
    /\ ScriptSpec
    /\ WF_vars(StepDistances)
    /\ WF_vars(StartPath)
    /\ WF_vars(StepPath)
    /\ WF_vars(ReturnNone)

ScriptDone == bfs.at = "done"
ScriptEdge(u, v) == \E k \in 1..Len(bfs.graph[u]) : bfs.graph[u][k] = v

\* C28: find_path(graph, start, e) returns None exactly when e is no node of
\* the graph or calculate_distances(graph, start)[e] is -1; otherwise it
\* returns a path from start to e along edges of the graph whose number of
\* edges is calculate_distances(graph, start)[e].
C28_TraversalsAgree ==
    ScriptDone =>
        /\ bfs.answer = "None" <=>
              (bfs.end_node \notin DOMAIN bfs.graph \/ bfs.distances[bfs.end_node] = 0 - 1)
        /\ bfs.answer = "path" =>
              /\ bfs.path[1] = bfs.start_node
              /\ bfs.path[Len(bfs.path)] = bfs.end_node
              /\ \A i \in 1..(Len(bfs.path) - 1) : ScriptEdge(bfs.path[i], bfs.path[i + 1])
              /\ Len(bfs.path) - 1 = bfs.distances[bfs.end_node]

\* Around the triangle of the couple and their child, to the spouse of the child.
C28_Witness ==
    /\ ScriptDone
    /\ bfs.start_node = 2
    /\ bfs.end_node = 4
    /\ bfs.path = <<2, 3, 4>>
    /\ ScriptEdge(1, 2)
    /\ ScriptEdge(1, 3)

Traversing == bfs.at \in {"distances", "path"}

\* C30: calculate_distances and find_path terminate, also on a graph with a
\* cycle: each run of the two reaches the end of the script; no node is
\* appended to a queue more than once; a distance that was assigned is not
\* assigned again.
C30_TraversalsTerminate ==
    /\ [](Traversing => \A n \in DOMAIN bfs.graph : bfs.enq[n] <= 1)
    /\ [][(bfs.at = "distances" /\ bfs'.at = "distances") =>
             \A n \in DOMAIN bfs.graph :
                bfs.distances[n] # 0 - 1 => bfs'.distances[n] = bfs.distances[n]]_vars
    /\ (Traversing ~> ScriptDone)

\* The traversal has gone round the triangle and emptied its queue.
C30_Witness ==
    /\ bfs.at = "distances"
    /\ bfs.queue = <<>>
    /\ ScriptEdge(1, 2)
    /\ ScriptEdge(2, 3)
    /\ ScriptEdge(3, 1)
    /\ bfs.distances[4] = 2
=============================================================================
